---------------------------- MODULE Spec2Model ----------------------------
(***************************************************************************)
(* A model of the Bitburner helper scripts port-utils.js and utils.js.     *)
(*                                                                         *)
(* port-utils.js: pushToInputPort, pushToOutputPort and checkForEvent      *)
(* acting on the host's numbered ports (fixed-capacity FIFO queues).       *)
(* utils.js: getNetworkNodes (the depth-first scan), penetrate,            *)
(* canPenetrate, getRootAccess and hasRam, acting on the host's view of    *)
(* the network, of the files on "home" and of the servers' RAM.            *)
(*                                                                         *)
(* The host (the NS object) is not part of the repository: its port        *)
(* primitives are modelled by the Port* operators below, and what it       *)
(* reports about servers is chosen in the initial states.                  *)
(***************************************************************************)
EXTENDS Integers, Sequences, FiniteSets, TLC

VARIABLES
    ports,            \* port number -> the queue of strings the host holds
    before,           \* the ports as they were when the last call started
    call,             \* the last call of a port-utils function and its result
    sent,             \* payloads pushToOutputPort accepted, in order
    inbox,            \* what the polling scripts received, in order
    net,              \* ns.scan: hostname -> the neighbours of that host
    origin,           \* ns.getHostname()
    visited,          \* getNetworkNodes: own keys of `visited`, in insertion order
    stack,            \* getNetworkNodes: `stack`
    scanPc,           \* getNetworkNodes: "loop" (line 20) or "done" (returned)
    nodes,            \* getNetworkNodes: the returned array
    cracks,           \* Object.keys(cracks): the crack files the map names
    files,            \* the files that exist on "home"
    numPortsRequired, \* ns.getServerNumPortsRequired
    hostLog,          \* the host calls made by the last utils.js call, in order
    ucall,            \* the last call of canPenetrate/penetrate/getRootAccess
    maxRam,           \* ns.getServerMaxRam
    usedRam,          \* ns.getServerUsedRam
    ramCall           \* the last call of hasRam and its result

portVars == <<ports, before, call, sent, inbox>>
scanVars == <<net, origin, visited, stack, scanPc, nodes>>
rootVars == <<cracks, files, numPortsRequired, hostLog, ucall>>
ramVars  == <<maxRam, usedRam, ramCall>>
vars     == <<portVars, scanVars, rootVars, ramVars>>

(***************************************************************************)
(* Bounds of the model.                                                    *)
(***************************************************************************)
\* The host's port capacity (a game setting, 50 by default).
PortCapacity == 2
\* Responses pushed in one behaviour of the request/response protocol.
MaxPush == 3
\* The largest number of open ports a server requires.
MaxReqPorts == 3
\* The largest RAM of a server, in the host's smallest unit of RAM.
MaxRam == 3

(***************************************************************************)
(* port-utils.js                                                           *)
(***************************************************************************)
minInputPort == 1
maxInputPort == 19
outputPort == 20

PortNumbers == minInputPort..outputPort

\* JavaScript values: a number, NaN and null.
NumV(n) == [type |-> "number", val |-> n]
NaNV    == [type |-> "NaN", val |-> 0]
NullV   == [type |-> "null", val |-> 0]
\* The values the scripts pass as `data`.
DataValues == {NumV(1), NaNV}

\* JSON.stringify of a data value: NaN has no JSON form and becomes null.
JSONStringify(v) ==
    IF v.type = "number" THEN ToString(v.val) ELSE "null"

\* JSON.parse of such a text.
JSONParse(t) ==
    IF t = "null" THEN NullV
    ELSE CHOOSE v \in {NumV(n) : n \in 0..9} : ToString(v.val) = t

\* JSON.stringify of the envelope {eventType, reqId, data}: its keys and
\* values in order (the string the port holds).
StringifyPayload(payload) ==
    <<"eventType", payload.eventType, "reqId", payload.reqId,
      "data", payload.data>>

\* JSON.parse of an envelope string.
ParsePayload(s) ==
    [eventType |-> s[2], reqId |-> s[4], data |-> s[6]]

\* The host's port handle: write drops the oldest element of a full port.
PortFull(q)  == Len(q) >= PortCapacity
PortEmpty(q) == Len(q) = 0
PortPeek(q)  == Head(q)
PortRead(q)  == Tail(q)
PortWrite(q, v) == IF PortFull(q) THEN Append(Tail(q), v) ELSE Append(q, v)

NoCall ==
    [op |-> "none", eventType |-> "", reqId |-> "", data |-> NullV,
     payload |-> <<>>, port |-> 0, ret |-> "none", retData |-> NullV,
     retReqId |-> "", tprint |-> FALSE]

\* isInputPort with the upper limit off by one (a changed copy of isInputPort).
isInputPort_UpToOutputPort(port) == minInputPort <= port /\ port <= outputPort

isInputPort(port) == minInputPort <= port /\ port <= maxInputPort

pushToInputPort(eventType, reqId, data, port) ==
    /\ before' = ports
    /\ IF ~isInputPort(port)
       THEN /\ ports' = ports
            /\ call' = [NoCall EXCEPT !.op = "pushToInputPort",
                           !.eventType = eventType, !.reqId = reqId,
                           !.data = data, !.port = port,
                           !.ret = "undefined", !.tprint = TRUE]
       ELSE LET payload == [eventType |-> eventType, reqId |-> reqId,
                            data |-> JSONStringify(data)]
            IN /\ ports' = [ports EXCEPT
                               ![port] = PortWrite(@, StringifyPayload(payload))]
               /\ call' = [NoCall EXCEPT !.op = "pushToInputPort",
                              !.eventType = eventType, !.reqId = reqId,
                              !.data = data, !.port = port,
                              !.ret = "undefined"]

\* pushToOutputPort without its handle.full() test.
pushToOutputPort_NoFullTest(payload) ==
    /\ before' = ports
    /\ ports' = [ports EXCEPT ![outputPort] = PortWrite(@, payload)]
    /\ call' = [NoCall EXCEPT !.op = "pushToOutputPort",
                   !.payload = payload, !.ret = "true"]

pushToOutputPort(payload) ==
    /\ before' = ports
    /\ IF PortFull(ports[outputPort])
       THEN /\ ports' = ports
            /\ call' = [NoCall EXCEPT !.op = "pushToOutputPort",
                           !.payload = payload, !.ret = "false"]
       ELSE /\ ports' = [ports EXCEPT ![outputPort] = PortWrite(@, payload)]
            /\ call' = [NoCall EXCEPT !.op = "pushToOutputPort",
                           !.payload = payload, !.ret = "true"]

\* checkForEvent taking the head whatever its reqId.
checkForEvent_IgnoresReqId(eventType, reqId) ==
    /\ before' = ports
    /\ IF ~PortEmpty(ports[outputPort])
          /\ ParsePayload(PortPeek(ports[outputPort])).eventType = eventType
       THEN LET payload == ParsePayload(PortPeek(ports[outputPort]))
            IN /\ ports' = [ports EXCEPT ![outputPort] = PortRead(@)]
               /\ call' = [NoCall EXCEPT !.op = "checkForEvent",
                              !.eventType = eventType,
                              !.reqId = reqId, !.ret = "object",
                              !.retData = JSONParse(payload.data),
                              !.retReqId = payload.reqId]
       ELSE /\ ports' = ports
            /\ call' = [NoCall EXCEPT !.op = "checkForEvent",
                           !.eventType = eventType,
                           !.reqId = reqId, !.ret = "undefined"]

\* checkForEvent calling handle.read() before it compares the reqId.
checkForEvent_ReadsBeforeReqIdTest(eventType, reqId) ==
    /\ before' = ports
    /\ IF ~PortEmpty(ports[outputPort])
          /\ ParsePayload(PortPeek(ports[outputPort])).eventType = eventType
       THEN LET payload == ParsePayload(PortPeek(ports[outputPort]))
            IN /\ ports' = [ports EXCEPT ![outputPort] = PortRead(@)]
               /\ IF reqId /= "ANY" /\ reqId /= payload.reqId
                  THEN call' = [NoCall EXCEPT !.op = "checkForEvent",
                                   !.eventType = eventType,
                                   !.reqId = reqId, !.ret = "undefined"]
                  ELSE call' = [NoCall EXCEPT !.op = "checkForEvent",
                                   !.eventType = eventType,
                                   !.reqId = reqId, !.ret = "object",
                                   !.retData = JSONParse(payload.data),
                                   !.retReqId = payload.reqId]
       ELSE /\ ports' = ports
            /\ call' = [NoCall EXCEPT !.op = "checkForEvent",
                           !.eventType = eventType,
                           !.reqId = reqId, !.ret = "undefined"]

\* checkForEvent without the "ANY" wildcard: the reqId must always be equal.
checkForEvent_NoWildcard(eventType, reqId) ==
    /\ before' = ports
    /\ IF ~PortEmpty(ports[outputPort])
          /\ ParsePayload(PortPeek(ports[outputPort])).eventType = eventType
          /\ ParsePayload(PortPeek(ports[outputPort])).reqId = reqId
       THEN LET payload == ParsePayload(PortPeek(ports[outputPort]))
            IN /\ ports' = [ports EXCEPT ![outputPort] = PortRead(@)]
               /\ call' = [NoCall EXCEPT !.op = "checkForEvent",
                              !.eventType = eventType,
                              !.reqId = reqId, !.ret = "object",
                              !.retData = JSONParse(payload.data),
                              !.retReqId = payload.reqId]
       ELSE /\ ports' = ports
            /\ call' = [NoCall EXCEPT !.op = "checkForEvent",
                           !.eventType = eventType,
                           !.reqId = reqId, !.ret = "undefined"]

checkForEvent(eventType, reqId) ==
    /\ before' = ports
    /\ IF ~PortEmpty(ports[outputPort])
       THEN LET payload == ParsePayload(PortPeek(ports[outputPort]))
            IN IF payload.eventType = eventType
               THEN IF reqId /= "ANY" /\ reqId /= payload.reqId
                    THEN /\ ports' = ports
                         /\ call' = [NoCall EXCEPT !.op = "checkForEvent",
                                        !.eventType = eventType,
                                        !.reqId = reqId, !.ret = "undefined"]
                    ELSE /\ ports' = [ports EXCEPT
                                         ![outputPort] = PortRead(@)]
                         /\ call' = [NoCall EXCEPT !.op = "checkForEvent",
                                        !.eventType = eventType,
                                        !.reqId = reqId, !.ret = "object",
                                        !.retData = JSONParse(payload.data),
                                        !.retReqId = payload.reqId]
               ELSE /\ ports' = ports
                    /\ call' = [NoCall EXCEPT !.op = "checkForEvent",
                                   !.eventType = eventType,
                                   !.reqId = reqId, !.ret = "undefined"]
       ELSE /\ ports' = ports
            /\ call' = [NoCall EXCEPT !.op = "checkForEvent",
                           !.eventType = eventType,
                           !.reqId = reqId, !.ret = "undefined"]


(***************************************************************************)
(* utils.js                                                                *)
(***************************************************************************)
homeServer == "home"

\* The hostnames of the modelled networks. A purchased server carries the
\* name its owner gave it; "constructor" is such a name.
Hosts == {"home", "n00dles", "foodnstuff", "constructor"}

\* Property names every object literal inherits from Object.prototype:
\* `visited[name]` is a function (truthy) for these, on the empty `visited`.
ObjectPrototypeKeys ==
    {"constructor", "toString", "valueOf", "hasOwnProperty",
     "isPrototypeOf", "propertyIsEnumerable", "toLocaleString"}

Range(seq) == {seq[i] : i \in 1..Len(seq)}

\* The arrays ns.scan may return for a set of neighbours: one per order.
Orders(S) ==
    {o \in [1..Cardinality(S) -> S] : \A i, j \in 1..Cardinality(S) :
                                          o[i] = o[j] => i = j}

\* `visited[key]` is truthy: an own property set on line 23 (its value, the
\* hostname, is a non-empty string), or a property inherited by `{}`.
visitedTruthy(v, key) == key \in Range(v) \/ key \in ObjectPrototypeKeys

\* One iteration of the while loop of getNetworkNodes (lines 20-32).
getNetworkNodesLoop ==
    /\ scanPc = "loop"
    /\ Len(stack) > 0
    /\ LET node == stack[Len(stack)]
           popped == SubSeq(stack, 1, Len(stack) - 1)
       IN IF ~visitedTruthy(visited, node)
          THEN \E neighbours \in Orders(net[node]) :
                  /\ visited' = Append(visited, node)
                  /\ stack' = popped \o
                        SelectSeq(neighbours,
                                  LAMBDA child : ~visitedTruthy(visited', child))
          ELSE /\ visited' = visited
               /\ stack' = popped
    /\ UNCHANGED <<net, origin, scanPc, nodes>>

\* The loop ends and Object.keys(visited) is returned (line 33).
getNetworkNodesReturn ==
    /\ scanPc = "loop"
    /\ Len(stack) = 0
    /\ nodes' = visited
    /\ scanPc' = "done"
    /\ UNCHANGED <<net, origin, visited, stack>>

\* The crack files of the game that the model uses, and its servers.
CrackFiles == {"BruteSSH.exe", "FTPCrack.exe", "relaySMTP.exe"}
Servers == {"n00dles", "foodnstuff"}

HostCall(fn, arg, server) == [fn |-> fn, arg |-> arg, server |-> server]

\* The host calls of penetrate's loop over Object.keys(cracks) (lines 45-50).
RECURSIVE penetrateLoop(_, _)
penetrateLoop(server, keys) ==
    IF keys = <<>> THEN <<>>
    ELSE LET file == Head(keys)
         IN <<HostCall("fileExists", file, homeServer)>>
            \o (IF file \in files
                THEN <<HostCall("crack", file, server)>>
                ELSE <<>>)
            \o penetrateLoop(server, Tail(keys))

\* The host calls of penetrate(ns, server, cracks).
penetrateCalls(server) ==
    <<HostCall("print", "Penetrating", server)>> \o penetrateLoop(server, cracks)

penetrate(server) ==
    /\ hostLog' = penetrateCalls(server)
    /\ ucall' = [op |-> "penetrate", server |-> server, ret |-> "undefined"]
    /\ UNCHANGED <<cracks, files, numPortsRequired>>

\* getNumCracks counting every key of the map, on "home" or not.
getNumCracks_CountsEveryKey == Len(cracks)

getNumCracks == Len(SelectSeq(cracks, LAMBDA file : file \in files))

canPenetrate(server) ==
    LET numCracks == getNumCracks
        reqPorts == numPortsRequired[server]
    IN /\ hostLog' = [i \in 1..Len(cracks) |->
                         HostCall("fileExists", cracks[i], homeServer)]
                     \o <<HostCall("getServerNumPortsRequired", "", server)>>
       /\ ucall' = [op |-> "canPenetrate", server |-> server,
                    ret |-> IF numCracks >= reqPorts THEN "true" ELSE "false"]
       /\ UNCHANGED <<cracks, files, numPortsRequired>>

\* getRootAccess calling penetrate whatever the number of ports required.
getRootAccess_AlwaysPenetrates(server) ==
    /\ hostLog' = <<HostCall("getServerNumPortsRequired", "", server)>>
                  \o penetrateCalls(server)
                  \o <<HostCall("print", "Gaining root access", server),
                       HostCall("nuke", "", server)>>
    /\ ucall' = [op |-> "getRootAccess", server |-> server, ret |-> "undefined"]
    /\ UNCHANGED <<cracks, files, numPortsRequired>>

getRootAccess(server) ==
    LET requiredPorts == numPortsRequired[server]
    IN /\ hostLog' = <<HostCall("getServerNumPortsRequired", "", server)>>
                     \o (IF requiredPorts > 0
                         THEN penetrateCalls(server)
                         ELSE <<>>)
                     \o <<HostCall("print", "Gaining root access", server),
                          HostCall("nuke", "", server)>>
       /\ ucall' = [op |-> "getRootAccess", server |-> server,
                    ret |-> "undefined"]
       /\ UNCHANGED <<cracks, files, numPortsRequired>>

hasRam(server, scriptRam, useMax) ==
    LET ramAvail == IF useMax THEN maxRam[server]
                    ELSE maxRam[server] - usedRam[server]
    IN /\ ramCall' = [op |-> "hasRam", server |-> server,
                      scriptRam |-> scriptRam, useMax |-> useMax,
                      ret |-> IF ramAvail > scriptRam THEN "true" ELSE "false"]
       /\ UNCHANGED <<maxRam, usedRam>>

(***************************************************************************)
(* The scripts that use port-utils.js, and the values they pass.           *)
(***************************************************************************)
EventTypes == {"hack", "grow"}
ReqIds == {"r1", "r2"}

Envelope(eventType, reqId, data) ==
    StringifyPayload([eventType |-> eventType, reqId |-> reqId,
                      data |-> JSONStringify(data)])

\* Responses a worker script pushes to the output port: envelopes of the
\* form pushToInputPort builds, whose data field is JSON text. (On any
\* other string JSON.parse throws, on line 70 or, the message already
\* read, on line 78.)
Responses ==
    {Envelope(e, r, d) : e \in EventTypes, r \in ReqIds, d \in DataValues}

\* The port arguments tried with pushToInputPort.
PortArgs == {0, minInputPort, maxInputPort, outputPort, outputPort + 1}

EmptyPorts == [p \in PortNumbers |-> <<>>]

\* The state of utils.js when none of its functions has been called.
ScanIdle ==
    /\ net = [h \in {"home"} |-> {}]
    /\ origin = "home"
    /\ visited = <<>>
    /\ stack = <<>>
    /\ scanPc = "idle"
    /\ nodes = <<>>

NoUtilCall == [op |-> "none", server |-> "", ret |-> "none"]

RootIdle ==
    /\ cracks = <<>>
    /\ files = {}
    /\ numPortsRequired = [s \in {"home"} |-> 0]
    /\ hostLog = <<>>
    /\ ucall = NoUtilCall

NoRamCall ==
    [op |-> "none", server |-> "", scriptRam |-> 0, useMax |-> FALSE,
     ret |-> "none"]

RamIdle ==
    /\ maxRam = [s \in {"home"} |-> 0]
    /\ usedRam = [s \in {"home"} |-> 0]
    /\ ramCall = NoRamCall

PortsIdle ==
    /\ ports = EmptyPorts
    /\ before = EmptyPorts
    /\ call = NoCall
    /\ sent = <<>>
    /\ inbox = <<>>

(***************************************************************************)
(* Spec: worker scripts push responses to the output port and requesting   *)
(* scripts poll it. An input port may hold a request all along.            *)
(***************************************************************************)
Init ==
    /\ \E q \in {<<>>, <<Envelope("hack", "r1", NumV(1))>>} :
          ports = [EmptyPorts EXCEPT ![minInputPort] = q]
    /\ before = ports
    /\ call = NoCall
    /\ sent = <<>>
    /\ inbox = <<>>
    /\ ScanIdle /\ RootIdle /\ RamIdle

Respond ==
    /\ \E payload \in Responses : pushToOutputPort(payload)
    /\ UNCHANGED <<sent, inbox, scanVars, rootVars, ramVars>>

Poll ==
    /\ \E eventType \in EventTypes, reqId \in ReqIds \cup {"ANY"} :
          checkForEvent(eventType, reqId)
    /\ UNCHANGED <<sent, inbox, scanVars, rootVars, ramVars>>

Next == Respond \/ Poll

Spec == Init /\ [][Next]_vars

(***************************************************************************)
(* SpecInput: requesting scripts push requests with pushToInputPort while   *)
(* the output port holds a response.                                       *)
(***************************************************************************)
InitInput ==
    /\ ports = [EmptyPorts EXCEPT
                   ![outputPort] = <<Envelope("hack", "r1", NumV(1))>>]
    /\ before = ports
    /\ call = NoCall
    /\ sent = <<>>
    /\ inbox = <<>>
    /\ ScanIdle /\ RootIdle /\ RamIdle

Request ==
    /\ \E reqId \in ReqIds, data \in DataValues, port \in PortArgs :
          pushToInputPort("hack", reqId, data, port)
    /\ UNCHANGED <<sent, inbox, scanVars, rootVars, ramVars>>

NextInput == Request

SpecInput == InitInput /\ [][NextInput]_vars

(***************************************************************************)
(* SpecLive: the request/response protocol over the output port. Two       *)
(* requesting scripts poll in a loop, each with its own event type and     *)
(* request ID; workers push at most MaxPush responses.                     *)
(***************************************************************************)
Pollers ==
    {[eventType |-> "hack", reqId |-> "r1"],
     [eventType |-> "grow", reqId |-> "ANY"]}

LiveResponses ==
    {Envelope(e, r, NumV(1)) : e \in EventTypes, r \in ReqIds}

InitLive == PortsIdle /\ ScanIdle /\ RootIdle /\ RamIdle

LiveRespond ==
    /\ Len(sent) < MaxPush
    /\ \E payload \in LiveResponses :
          /\ pushToOutputPort(payload)
          /\ sent' = IF call'.ret = "true" THEN Append(sent, payload) ELSE sent
    /\ UNCHANGED <<inbox, scanVars, rootVars, ramVars>>

LivePoll(p) ==
    /\ checkForEvent(p.eventType, p.reqId)
    /\ inbox' = IF call'.ret = "object"
                THEN Append(inbox, [poller |-> p, data |-> call'.retData,
                                    reqId |-> call'.retReqId])
                ELSE inbox
    /\ UNCHANGED <<sent, scanVars, rootVars, ramVars>>

NextLive == LiveRespond \/ \E p \in Pollers : LivePoll(p)

SpecLive ==
    InitLive /\ [][NextLive]_vars /\ \A p \in Pollers : WF_vars(LivePoll(p))


(***************************************************************************)
(* Properties of port-utils.js.                                            *)
(***************************************************************************)
\* A queued message is what was asked for: its eventType is the requested
\* one and its reqId is the requested one, or the request is for "ANY".
Matches(s, eventType, reqId) ==
    /\ ParsePayload(s).eventType = eventType
    /\ reqId = "ANY" \/ ParsePayload(s).reqId = reqId

InputPorts == minInputPort..maxInputPort

\* C2: pushToOutputPort returns false and leaves the port's queue unchanged
\* when the output port is full; otherwise it returns true and appends the
\* payload at the tail: the queue never exceeds its capacity and no queued
\* message is displaced.
C2_PushToOutputPort ==
    call.op = "pushToOutputPort" =>
        /\ IF Len(before[outputPort]) >= PortCapacity
           THEN call.ret = "false" /\ ports = before
           ELSE /\ call.ret = "true"
                /\ ports[outputPort] = Append(before[outputPort], call.payload)
        /\ Len(ports[outputPort]) <= PortCapacity
        /\ SubSeq(ports[outputPort], 1, Len(before[outputPort]))
              = before[outputPort]
        /\ \A p \in InputPorts : ports[p] = before[p]

\* C2, its case: a push on a full output port was refused.
C2_Witness ==
    /\ call.op = "pushToOutputPort"
    /\ call.ret = "false"
    /\ Len(before[outputPort]) = PortCapacity

C4_PushToInputPort ==
    call.op = "pushToInputPort" =>
        IF call.port \notin InputPorts
        THEN ports = before /\ call.tprint
        ELSE LET q == ports[call.port]
                 b == before[call.port]
                 kept == SubSeq(q, 1, Len(q) - 1)
             IN /\ ~call.tprint
                /\ \A p \in PortNumbers \ {call.port} : ports[p] = before[p]
                /\ Len(q) >= 1
                /\ ParsePayload(q[Len(q)]) =
                      [eventType |-> call.eventType, reqId |-> call.reqId,
                       data |-> JSONStringify(call.data)]
                /\ \/ kept = b
                   \/ Len(b) = PortCapacity /\ kept = SubSeq(b, 2, Len(b))

\* C4, its case: a push to the output port's number was refused while the
\* output port held a message.
C4_Witness ==
    /\ call.op = "pushToInputPort"
    /\ call.port = outputPort
    /\ ports[outputPort] /= <<>>

PolledFor(s) == \E p \in Pollers : Matches(s, p.eventType, p.reqId)

\* The k-th accepted response was received, by a script polling for it.
Received(k) ==
    /\ Len(inbox) >= k
    /\ inbox[k].data = JSONParse(ParsePayload(sent[k]).data)
    /\ inbox[k].reqId = ParsePayload(sent[k]).reqId
    /\ Matches(sent[k], inbox[k].poller.eventType, inbox[k].poller.reqId)

\* C9 as stated: a response pushToOutputPort accepted is eventually received
\* by a script that keeps polling with its eventType and reqId, whatever
\* other messages are queued in the output port.
C9_AcceptedEventuallyReceived ==
    \A k \in 1..MaxPush :
        (Len(sent) >= k /\ PolledFor(sent[k])) ~> Received(k)

\* C9, amended: a response pushToOutputPort accepted is eventually received
\* by a script that keeps polling with its eventType and reqId, provided every
\* message queued ahead of it in the output port is polled for by some
\* script too; a head message that no script polls for keeps back every
\* response behind it.
C9_ReceivedIfNothingUnpolledAhead ==
    \A k \in 1..MaxPush :
        (/\ Len(sent) >= k
         /\ \A j \in (Len(inbox) + 1)..k : PolledFor(sent[j]))
            ~> Received(k)

\* C9, its case: two accepted responses were received by different scripts.
C9_Witness ==
    /\ Len(sent) >= 2
    /\ Len(inbox) >= 2
    /\ inbox[1].poller /= inbox[2].poller

(***************************************************************************)
(* SpecScan: one call of getNetworkNodes on a network of the Hosts.        *)
(***************************************************************************)
InitScan ==
    /\ net \in {n \in [Hosts -> SUBSET Hosts] : \A h \in Hosts : h \notin n[h]}
    /\ origin \in Hosts
    /\ visited = <<>>
    /\ stack = <<origin>>
    /\ scanPc = "loop"
    /\ nodes = <<>>
    /\ PortsIdle /\ RootIdle /\ RamIdle

ScanLoop == getNetworkNodesLoop /\ UNCHANGED <<portVars, rootVars, ramVars>>

ScanReturn == getNetworkNodesReturn /\ UNCHANGED <<portVars, rootVars, ramVars>>

NextScan == ScanLoop \/ ScanReturn

SpecScan == InitScan /\ [][NextScan]_vars

(***************************************************************************)
(* SpecRoot: calls of penetrate, canPenetrate and getRootAccess with a     *)
(* cracks map, a set of files on "home" and the servers' required ports.   *)
(***************************************************************************)
InitRoot ==
    /\ cracks \in UNION {Orders(S) : S \in SUBSET CrackFiles}
    /\ files \in SUBSET CrackFiles
    /\ numPortsRequired \in [Servers -> 0..MaxReqPorts]
    /\ hostLog = <<>>
    /\ ucall = NoUtilCall
    /\ PortsIdle /\ ScanIdle /\ RamIdle

Penetrate ==
    /\ \E server \in Servers : penetrate(server)
    /\ UNCHANGED <<portVars, scanVars, ramVars>>

CanPenetrate ==
    /\ \E server \in Servers : canPenetrate(server)
    /\ UNCHANGED <<portVars, scanVars, ramVars>>

GetRootAccess ==
    /\ \E server \in Servers : getRootAccess(server)
    /\ UNCHANGED <<portVars, scanVars, ramVars>>

NextRoot == Penetrate \/ CanPenetrate \/ GetRootAccess

SpecRoot == InitRoot /\ [][NextRoot]_vars

(***************************************************************************)
(* SpecRam: calls of hasRam on servers with some RAM in use.               *)
(***************************************************************************)
InitRam ==
    /\ maxRam \in [Servers -> 0..MaxRam]
    /\ usedRam \in {u \in [Servers -> 0..MaxRam] :
                       \A s \in Servers : u[s] <= maxRam[s]}
    /\ ramCall = NoRamCall
    /\ PortsIdle /\ ScanIdle /\ RootIdle

HasRam ==
    /\ \E server \in Servers, scriptRam \in 0..MaxRam, useMax \in BOOLEAN :
          hasRam(server, scriptRam, useMax)
    /\ UNCHANGED <<portVars, scanVars, rootVars>>

NextRam == HasRam

SpecRam == InitRam /\ [][NextRam]_vars

(***************************************************************************)
(* Properties of utils.js.                                                 *)
(***************************************************************************)
\* The hosts reachable from the hosts of S along ns.scan.
RECURSIVE Reach(_)
Reach(S) ==
    LET T == S \cup UNION {net[h] : h \in S}
    IN IF T = S THEN S ELSE Reach(T)

\* C1: getNetworkNodes returns exactly the hostnames reachable from the
\* starting host (the starting host included), none listed twice and no
\* unreachable hostname listed.
C1_ScanReturnsReachable ==
    scanPc = "done" =>
        /\ Range(nodes) = Reach({origin})
        /\ \A i, j \in 1..Len(nodes) : nodes[i] = nodes[j] => i = j

\* getNetworkNodes is right on the networks in which no reachable hostname
\* is a property name of Object.prototype.
ScanReturnsReachablePlainNames ==
    (scanPc = "done" /\ Reach({origin}) \cap ObjectPrototypeKeys = {}) =>
        /\ Range(nodes) = Reach({origin})
        /\ \A i, j \in 1..Len(nodes) : nodes[i] = nodes[j] => i = j

\* The positions of hostLog that hold a call of fn.
CallsOf(fn) == {i \in 1..Len(hostLog) : hostLog[i].fn = fn}

\* C5: in every getRootAccess call ns.nuke(server) is invoked exactly once
\* and is the last host action; when the server requires more than 0 ports
\* every crack function whose file exists on "home" runs exactly once against
\* the server before ns.nuke and none whose file is absent runs; when the
\* server requires 0 ports no crack function runs.
C5_GetRootAccessOrder ==
    ucall.op = "getRootAccess" =>
        LET server == ucall.server
            crackRuns(file) ==
                {i \in CallsOf("crack") : hostLog[i].arg = file}
        IN /\ Cardinality(CallsOf("nuke")) = 1
           /\ hostLog[Len(hostLog)] = HostCall("nuke", "", server)
           /\ \A i \in CallsOf("crack") : hostLog[i].server = server
           /\ IF numPortsRequired[server] > 0
              THEN /\ \A file \in Range(cracks) \cap files :
                         Cardinality(crackRuns(file)) = 1
                   /\ \A i \in CallsOf("crack") :
                         /\ hostLog[i].arg \in Range(cracks) \cap files
                         /\ \A n \in CallsOf("nuke") : i < n
              ELSE CallsOf("crack") = {}

\* C5, its case: a server requiring ports, with one crack file of the map on
\* "home" and another one absent.
C5_Witness ==
    /\ ucall.op = "getRootAccess"
    /\ numPortsRequired[ucall.server] > 0
    /\ Range(cracks) \cap files /= {}
    /\ Range(cracks) \ files /= {}
    /\ CallsOf("crack") /= {}

\* C7: canPenetrate returns true exactly when the number of entries of the
\* cracks map whose file exists on "home" is at least the number of open
\* ports the server requires; the server matters only through that number.
C7_CanPenetrate ==
    ucall.op = "canPenetrate" =>
        (ucall.ret = "true" <=>
            Cardinality(Range(cracks) \cap files)
                >= numPortsRequired[ucall.server])

\* C7, its case: canPenetrate refused a server although the map names enough
\* crack files, too few of which are on "home".
C7_Witness ==
    /\ ucall.op = "canPenetrate"
    /\ ucall.ret = "false"
    /\ Len(cracks) >= numPortsRequired[ucall.server]
    /\ files /= {}

\* C6: hasRam returns true exactly when the RAM considered (maxRam - usedRam,
\* or maxRam when useMax is true) is at least scriptRam.
C6_HasRamAtLeast ==
    ramCall.op = "hasRam" =>
        LET considered == IF ramCall.useMax THEN maxRam[ramCall.server]
                          ELSE maxRam[ramCall.server] - usedRam[ramCall.server]
        IN ramCall.ret = "true" <=> considered >= ramCall.scriptRam

\* What hasRam does: true exactly when the RAM considered exceeds scriptRam.
HasRamStrictlyMore ==
    ramCall.op = "hasRam" =>
        LET considered == IF ramCall.useMax THEN maxRam[ramCall.server]
                          ELSE maxRam[ramCall.server] - usedRam[ramCall.server]
        IN ramCall.ret = "true" <=> considered > ramCall.scriptRam

=============================================================================
